---- MODULE Spec2Model ----
(***************************************************************************)
(* VellumEngine: the GPU resource lifecycle of Renderer (src/renderer.rs), *)
(* the fixed-timestep accumulator GameLoop (src/game_loop.rs), the Scene   *)
(* store (src/scene.rs) and the winit handlers of VellumApp (src/app.rs).  *)
(*                                                                         *)
(* Conventions.                                                            *)
(*  - Option<T> is a sequence: None is <<>>, Some(x) is <<x>>.             *)
(*  - Durations are whole nanoseconds, as std::time::Duration keeps them.  *)
(*  - Scene coordinates are fixed point, PosScale units per 1.0; the f32   *)
(*    rounding of the source is not modelled.                              *)
(*  - wgpu and winit are the environment.  A call into them whose outcome  *)
(*    the program does not control (surface creation, adapter and device   *)
(*    requests, reported capabilities, pipeline validation, texture        *)
(*    acquisition, window creation, window sizes) is an input drawn with   *)
(*    \E.  A Rust panic ends the process: `fault` records it and no        *)
(*    handler runs afterwards.                                             *)
(***************************************************************************)
EXTENDS Integers, Sequences, FiniteSets, TLC

VARIABLES
    app,            \* VellumApp: window_manager, renderer, game_loop, input_manager
    surface_config, \* environment: configuration last applied to the surface
    exiting,        \* environment: event_loop.exit() has been called
    fault,          \* "none", or the panic that killed the process
    trace,          \* calls made by the handler that ran last, in order
    drawn,          \* what the last handler's draw call consumed, if it drew
    last_event,     \* the host event the last handler was given
    repeated,       \* the last event was a Resized equal to the one before it
    init,           \* history of Renderer::initialize: calls, result, failed step
    clock,          \* history of GameLoop::tick: ticks, elapsed, updates, scene_time
    last_tick,      \* the last tick(): bucket before, delta fed, count returned
    acquired,       \* what get_current_texture answered the last handler, if asked
    answers,        \* what wgpu and winit answered the last handler, if it was a
                    \* resumed that created a window
    rebuilt         \* Scene::initialize_buffer has been called

vars == <<app, surface_config, exiting, fault, trace, drawn, last_event,
          repeated, init, clock, last_tick, acquired, answers, rebuilt>>

----------------------------------------------------------------------------
(* Bounds of the exploration *)

\* window dimensions 0..MaxDim are explored next to the named sizes below
MaxDim == 0
\* idle ticks explored in the application specification
MaxFrames == 2
\* tick() calls explored in the clock specification
MaxTicks == 4
\* total nanoseconds fed to the clock (keeps products inside 32 bits)
MaxElapsed == 1000000000
\* entities of a scene in the scene specification
MaxEntities == 2

----------------------------------------------------------------------------
(* Option and small helpers *)

None == <<>>
Some(x) == <<x>>
IsSome(o) == o # <<>>
Unwrap(o) == o[1]

Max(a, b) == IF a >= b THEN a ELSE b

\* Duration counts whole nanoseconds
NanosPerSec == 1000000000
Millis(n) == n * (NanosPerSec \div 1000)

\* fixed-point scale of scene coordinates: PosScale units are 1.0
PosScale == 1000000

----------------------------------------------------------------------------
(* src/game_loop.rs *)

\* mutant: the conversion truncates instead of rounding
Duration_from_rate_trunc(updates_per_second) == NanosPerSec \div updates_per_second

\* Duration::from_secs_f64(1.0 / updates_per_second) in whole nanoseconds:
\* the conversion rounds to the nearest nanosecond, ties to even
\* (updates_per_second is a positive whole number here).
Duration_from_rate(updates_per_second) ==
    LET q == NanosPerSec \div updates_per_second
        r == NanosPerSec % updates_per_second
    IN  IF 2 * r > updates_per_second THEN q + 1
        ELSE IF 2 * r = updates_per_second THEN q + (q % 2)
        ELSE q

\* GameLoop::new; last_update (an Instant) is not kept: the time that
\* passes between two ticks is the input `delta_time` of GameLoop_tick.
GameLoop_new(updates_per_second) ==
    [ accumulated_time |-> 0,
      update_rate      |-> Duration_from_rate(updates_per_second) ]

\* mutant: `if` for `while`, at most one update per tick
TickLoop_once(accumulated_time, update_rate, update_count) ==
    IF accumulated_time >= update_rate
    THEN [ accumulated_time |-> accumulated_time - update_rate,
           update_count |-> update_count + 1, overflow |-> FALSE ]
    ELSE [ accumulated_time |-> accumulated_time, update_count |-> update_count,
           overflow |-> FALSE ]

\* mutant: `>` for `>=`, a bucket that holds exactly one period keeps it
RECURSIVE TickLoop_gt(_, _, _)
TickLoop_gt(accumulated_time, update_rate, update_count) ==
    IF accumulated_time > update_rate
    THEN TickLoop_gt(accumulated_time - update_rate, update_rate, update_count + 1)
    ELSE [ accumulated_time |-> accumulated_time, update_count |-> update_count,
           overflow |-> FALSE ]

\* mutant: runs an update for a started period too (saturating subtraction)
RECURSIVE TickLoop_ceil(_, _, _)
TickLoop_ceil(accumulated_time, update_rate, update_count) ==
    IF accumulated_time > 0
    THEN TickLoop_ceil(Max(accumulated_time - update_rate, 0), update_rate,
                       update_count + 1)
    ELSE [ accumulated_time |-> accumulated_time, update_count |-> update_count,
           overflow |-> FALSE ]

\* the while loop of tick(): subtract the period while the bucket holds one.
\* With a period of zero a pass changes nothing but the counter, so the
\* guard holds on every pass and `update_count += 1` runs until the u32
\* counter overflows: `overflow` reports that, without unrolling the passes.
\* (A counter that overflows with a positive period needs more than 2^32
\* passes, which is beyond the elapsed times explored.)
RECURSIVE TickLoop(_, _, _)
TickLoop(accumulated_time, update_rate, update_count) ==
    IF accumulated_time >= update_rate
    THEN IF update_rate = 0
         THEN [ accumulated_time |-> accumulated_time, update_count |-> update_count,
                overflow |-> TRUE ]
         ELSE TickLoop(accumulated_time - update_rate, update_rate, update_count + 1)
    ELSE [ accumulated_time |-> accumulated_time, update_count |-> update_count,
           overflow |-> FALSE ]

\* what an overflow of the u32 counter does: an arithmetic-overflow panic
\* in a build with overflow checks (debug), a wrap-around and therefore an
\* endless loop in a build without them (release)
Builds == { "debug", "release" }

TickFault(build) ==
    IF build = "debug" THEN "panic: attempt to add with overflow"
    ELSE "hang: tick() never returns"

\* GameLoop::tick with `delta_time` nanoseconds since the previous tick;
\* returns the new GameLoop and the pair (delta_time, update_count), or
\* `overflow` when the loop does not come to an end.
GameLoop_tick(game_loop, delta_time) ==
    LET out == TickLoop(game_loop.accumulated_time + delta_time,
                        game_loop.update_rate, 0)
    IN  [ game_loop    |-> [ game_loop EXCEPT !.accumulated_time = out.accumulated_time ],
          delta_time   |-> delta_time,
          update_count |-> out.update_count,
          overflow     |-> out.overflow ]

----------------------------------------------------------------------------
(* src/scene.rs *)

\* Scene::new: one triangle at offset (0, 0), no vertex buffer
Scene_new ==
    [ entities |-> << [ vertices |-> << <<0, PosScale \div 2>>,
                                        <<-(PosScale \div 2), -(PosScale \div 2)>>,
                                        <<PosScale \div 2, -(PosScale \div 2)>> >>,
                        position |-> <<0, 0>> ] >>,
      vertex_buffer |-> None ]

\* mutant: the vertices are written untranslated
WorldVertices_local(entity) == entity.vertices

\* one entity's vertices translated by its position
WorldVertices(entity) ==
    [ i \in 1..Len(entity.vertices) |->
        << entity.vertices[i][1] + entity.position[1],
           entity.vertices[i][2] + entity.position[2] >> ]

\* the flat_map over the entities, in order
RECURSIVE FlatVertices(_)
FlatVertices(entities) ==
    IF entities = <<>> THEN <<>>
    ELSE WorldVertices(Head(entities)) \o FlatVertices(Tail(entities))

\* Scene::initialize_buffer: a new buffer holding the world-space vertices
Scene_initialize_buffer(scene) ==
    [ scene EXCEPT !.vertex_buffer = Some(FlatVertices(scene.entities)) ]

\* Scene::vertex_count: the sum of the entities' vertex counts
RECURSIVE Scene_vertex_count_of(_)
Scene_vertex_count_of(entities) ==
    IF entities = <<>> THEN 0
    ELSE Len(Head(entities).vertices) + Scene_vertex_count_of(Tail(entities))

Scene_vertex_count(scene) == Scene_vertex_count_of(scene.entities)

\* (delta_time * 0.5) as f32, delta_time in seconds: here nanoseconds to
\* fixed point, PosScale / (2 * NanosPerSec) units per nanosecond
HalfDelta(delta_time) == delta_time \div (2 * (NanosPerSec \div PosScale))

\* Scene::update: the first entity moves right at 0.5 units per second
Scene_update(scene, delta_time) ==
    IF scene.entities # <<>>
    THEN [ scene EXCEPT !.entities[1].position[1] = @ + HalfDelta(delta_time) ]
    ELSE scene

----------------------------------------------------------------------------
(* The context a handler runs in: the application's fields and the part   *)
(* of the environment it acts on.  `result` is the value the last         *)
(* fallible call returned, `scene_time` the sum of the delta_time         *)
(* arguments the handler has given Scene::update.                         *)

Ctx ==
    [ app |-> app, surface_config |-> surface_config, exiting |-> exiting,
      fault |-> "none", trace |-> <<>>, drawn |-> None, result |-> "none",
      scene_time |-> 0 ]

Call(c, name) == [ c EXCEPT !.trace = Append(@, name) ]

\* calls that reach the GPU driver
GpuCalls ==
    { "Instance::new", "enumerate_adapters", "create_surface", "request_adapter",
      "request_adapter(fallback)", "request_device", "get_capabilities",
      "surface.configure", "create_shader_module", "create_pipeline_layout",
      "create_render_pipeline", "create_buffer_init", "get_current_texture",
      "create_view", "create_command_encoder", "begin_render_pass",
      "set_pipeline", "set_vertex_buffer", "draw", "queue.submit", "present" }

GpuCallsOf(tr) == { i \in 1..Len(tr) : tr[i] \in GpuCalls }

----------------------------------------------------------------------------
(* src/renderer.rs *)

\* Renderer::new
Renderer_new ==
    [ device |-> None, queue |-> None, surface |-> None, config |-> None,
      render_pipeline |-> None, scene |-> Scene_new ]

\* Surface::configure as the renderer calls it.  wgpu panics when the
\* configuration's width or height is zero; otherwise the surface takes
\* the configuration.
Surface_configure(c, config) ==
    IF config.width = 0 \/ config.height = 0
    THEN [ Call(c, "surface.configure") EXCEPT
             !.fault = "panic: Surface::configure: width or height is zero" ]
    ELSE [ Call(c, "surface.configure") EXCEPT !.surface_config = Some(config) ]

\* mutant: initialize stores the resources without building the vertex buffer
Renderer_initialize_finish_no_rebuild(c, env, config) ==
    LET c1 == Call(Call(Call(c, "create_shader_module"), "create_pipeline_layout"),
                   "create_render_pipeline")
    IN  IF env.pipeline # "Ok"
        THEN [ c1 EXCEPT !.fault = "panic: create_render_pipeline: validation error",
                         !.result = "Panic" ]
        ELSE [ c1 EXCEPT
                 !.app.renderer =
                     [ device          |-> Some("Device"),
                       queue           |-> Some("Queue"),
                       surface         |-> Some("Surface"),
                       config          |-> Some(config),
                       render_pipeline |-> Some([ format |-> config.format ]),
                       scene           |-> @.scene ],
                 !.result = "Ok" ]

\* lines 96-150 of initialize: shader, layout, pipeline, first vertex
\* buffer, then the five fields are stored.  create_render_pipeline returns
\* no Result: a pipeline the driver rejects reaches wgpu's uncaptured-error
\* handler, which panics.
Renderer_initialize_finish(c, env, config) ==
    LET c1 == Call(Call(Call(c, "create_shader_module"), "create_pipeline_layout"),
                   "create_render_pipeline")
    IN  IF env.pipeline # "Ok"
        THEN [ c1 EXCEPT !.fault = "panic: create_render_pipeline: validation error",
                         !.result = "Panic" ]
        ELSE [ Call(c1, "create_buffer_init") EXCEPT
                 !.app.renderer =
                     [ device          |-> Some("Device"),
                       queue           |-> Some("Queue"),
                       surface         |-> Some("Surface"),
                       config          |-> Some(config),
                       render_pipeline |-> Some([ format |-> config.format ]),
                       scene           |-> Scene_initialize_buffer(@.scene) ],
                 !.result = "Ok" ]

\* lines 82-94 of initialize: capabilities, formats[0], alpha_modes[0],
\* the configuration from window.inner_size(), surface.configure.
\* Indexing an empty Vec panics.
Renderer_initialize_configure(c, window, env) ==
    LET c1 == Call(c, "get_capabilities")
    IN  IF env.formats = <<>> \/ env.alpha_modes = <<>>
        THEN [ c1 EXCEPT !.fault = "panic: index out of bounds: surface_caps[0]",
                         !.result = "Panic" ]
        ELSE LET config == [ width        |-> window.inner_size[1],
                             height       |-> window.inner_size[2],
                             format       |-> env.formats[1],
                             alpha_mode   |-> env.alpha_modes[1],
                             present_mode |-> "Fifo" ]
                 c2 == Surface_configure(c1, config)
             IN  IF c2.fault # "none"
                 THEN [ c2 EXCEPT !.result = "Panic" ]
                 ELSE Renderer_initialize_finish(c2, env, config)

\* mutant: the surface is stored as soon as it is created, so a later
\* failure returns with one field set
Renderer_initialize_early_store(c, window, env) ==
    LET c1 == Call(Call(Call(c, "Instance::new"), "enumerate_adapters"), "create_surface")
    IN  IF env.create_surface # "Ok"
        THEN [ c1 EXCEPT !.result = "Err(Failed to create surface)" ]
        ELSE
        LET c2 == [ Call(c1, "request_adapter") EXCEPT
                      !.app.renderer.surface = Some("Surface") ]
            c3 == IF env.adapter_first = "Ok" THEN c2
                  ELSE Call(c2, "request_adapter(fallback)")
        IN  IF env.adapter_first # "Ok" /\ env.adapter_fallback # "Ok"
            THEN [ c3 EXCEPT !.result = "Err(Failed to find any suitable GPU adapter.)" ]
            ELSE
            LET c4 == Call(c3, "request_device")
            IN  IF env.request_device # "Ok"
                THEN [ c4 EXCEPT !.result = "Err(Failed to request device)" ]
                ELSE Renderer_initialize_configure(c4, window, env)

\* mutant: no second adapter request, the first failure is final
Renderer_initialize_no_retry(c, window, env) ==
    LET c1 == Call(Call(Call(c, "Instance::new"), "enumerate_adapters"), "create_surface")
    IN  IF env.create_surface # "Ok"
        THEN [ c1 EXCEPT !.result = "Err(Failed to create surface)" ]
        ELSE
        LET c2 == Call(c1, "request_adapter")
        IN  IF env.adapter_first # "Ok"
            THEN [ c2 EXCEPT !.result = "Err(Failed to find any suitable GPU adapter.)" ]
            ELSE
            LET c4 == Call(c2, "request_device")
            IN  IF env.request_device # "Ok"
                THEN [ c4 EXCEPT !.result = "Err(Failed to request device)" ]
                ELSE Renderer_initialize_configure(c4, window, env)

\* Renderer::initialize.  `env` holds what wgpu answers.  An early return
\* through `?` stores nothing.
Renderer_initialize(c, window, env) ==
    LET c1 == Call(Call(Call(c, "Instance::new"), "enumerate_adapters"), "create_surface")
    IN  IF env.create_surface # "Ok"
        THEN [ c1 EXCEPT !.result = "Err(Failed to create surface)" ]
        ELSE
        LET c2 == Call(c1, "request_adapter")
            c3 == IF env.adapter_first = "Ok" THEN c2
                  ELSE Call(c2, "request_adapter(fallback)")
        IN  IF env.adapter_first # "Ok" /\ env.adapter_fallback # "Ok"
            THEN [ c3 EXCEPT !.result = "Err(Failed to find any suitable GPU adapter.)" ]
            ELSE
            LET c4 == Call(c3, "request_device")
            IN  IF env.request_device # "Ok"
                THEN [ c4 EXCEPT !.result = "Err(Failed to request device)" ]
                ELSE Renderer_initialize_configure(c4, window, env)

\* mutant: the resources are unwrapped instead of checked, so a render
\* before initialize panics
Renderer_render_unwrap(c, acquire) ==
    LET r == c.app.renderer
    IN  IF r.surface = None
        THEN [ c EXCEPT !.fault = "panic: called Option::unwrap() on a None value" ]
        ELSE IF r.scene.vertex_buffer = None THEN c
        ELSE
        LET c1 == Call(c, "get_current_texture")
        IN  CASE acquire = "Ok" ->
                   [ c1 EXCEPT
                       !.trace = @ \o << "create_view", "create_command_encoder",
                                         "begin_render_pass", "set_pipeline",
                                         "set_vertex_buffer", "draw",
                                         "queue.submit", "present" >>,
                       !.drawn = Some([ vertices     |-> Unwrap(r.scene.vertex_buffer),
                                        vertex_count |-> Scene_vertex_count(r.scene) ]) ]
              [] acquire = "Lost" -> Surface_configure(c1, Unwrap(r.config))
              [] OTHER -> c1

\* mutant: a lost surface is dropped instead of reconfigured
Renderer_render_drop_surface(c, acquire) ==
    LET r == c.app.renderer
    IN  IF \/ r.surface = None \/ r.device = None \/ r.queue = None
           \/ r.config = None \/ r.render_pipeline = None
           \/ r.scene.vertex_buffer = None
        THEN c
        ELSE
        LET c1 == Call(c, "get_current_texture")
        IN  CASE acquire = "Ok" ->
                   [ c1 EXCEPT
                       !.trace = @ \o << "create_view", "create_command_encoder",
                                         "begin_render_pass", "set_pipeline",
                                         "set_vertex_buffer", "draw",
                                         "queue.submit", "present" >>,
                       !.drawn = Some([ vertices     |-> Unwrap(r.scene.vertex_buffer),
                                        vertex_count |-> Scene_vertex_count(r.scene) ]) ]
              [] acquire = "Lost" -> [ c1 EXCEPT !.app.renderer.surface = None ]
              [] OTHER -> c1

\* mutant: every acquisition error reconfigures the surface
Renderer_render_reconfigure_any(c, acquire) ==
    LET r == c.app.renderer
    IN  IF \/ r.surface = None \/ r.device = None \/ r.queue = None
           \/ r.config = None \/ r.render_pipeline = None
           \/ r.scene.vertex_buffer = None
        THEN c
        ELSE
        LET c1 == Call(c, "get_current_texture")
        IN  CASE acquire = "Ok" ->
                   [ c1 EXCEPT
                       !.trace = @ \o << "create_view", "create_command_encoder",
                                         "begin_render_pass", "set_pipeline",
                                         "set_vertex_buffer", "draw",
                                         "queue.submit", "present" >>,
                       !.drawn = Some([ vertices     |-> Unwrap(r.scene.vertex_buffer),
                                        vertex_count |-> Scene_vertex_count(r.scene) ]) ]
              [] OTHER -> Surface_configure(c1, Unwrap(r.config))

\* Renderer::render.  `acquire` is what surface.get_current_texture()
\* answers: "Ok", "Lost", or another SurfaceError.
Renderer_render(c, acquire) ==
    LET r == c.app.renderer
    IN  IF \/ r.surface = None \/ r.device = None \/ r.queue = None
           \/ r.config = None \/ r.render_pipeline = None
           \/ r.scene.vertex_buffer = None
        THEN c
        ELSE
        LET c1 == Call(c, "get_current_texture")
        IN  CASE acquire = "Ok" ->
                   [ c1 EXCEPT
                       !.trace = @ \o << "create_view", "create_command_encoder",
                                         "begin_render_pass", "set_pipeline",
                                         "set_vertex_buffer", "draw",
                                         "queue.submit", "present" >>,
                       !.drawn = Some([ vertices     |-> Unwrap(r.scene.vertex_buffer),
                                        vertex_count |-> Scene_vertex_count(r.scene) ]) ]
              [] acquire = "Lost" -> Surface_configure(c1, Unwrap(r.config))
              [] OTHER -> c1

\* mutant: the clamp is forgotten
Renderer_resize_noclamp(c, width, height) ==
    LET r == c.app.renderer
    IN  IF r.surface # None /\ r.device # None /\ r.config # None
        THEN LET config == [ Unwrap(r.config) EXCEPT !.width  = width,
                                                     !.height = height ]
             IN  Surface_configure([ c EXCEPT !.app.renderer.config = Some(config) ],
                                   config)
        ELSE c

\* mutant: the height is taken from the configuration's old width
Renderer_resize_typo(c, width, height) ==
    LET r == c.app.renderer
    IN  IF r.surface # None /\ r.device # None /\ r.config # None
        THEN LET config == [ Unwrap(r.config) EXCEPT
                               !.width  = Max(width, 1),
                               !.height = Max(Unwrap(r.config).width, 1) ]
             IN  Surface_configure([ c EXCEPT !.app.renderer.config = Some(config) ],
                                   config)
        ELSE c

\* mutant: the new size is stored but the surface is not reconfigured
Renderer_resize_store_only(c, width, height) ==
    LET r == c.app.renderer
    IN  IF r.surface # None /\ r.device # None /\ r.config # None
        THEN LET config == [ Unwrap(r.config) EXCEPT !.width  = Max(width, 1),
                                                     !.height = Max(height, 1) ]
             IN  [ c EXCEPT !.app.renderer.config = Some(config) ]
        ELSE c

\* Renderer::resize
Renderer_resize(c, width, height) ==
    LET r == c.app.renderer
    IN  IF r.surface # None /\ r.device # None /\ r.config # None
        THEN LET config == [ Unwrap(r.config) EXCEPT !.width  = Max(width, 1),
                                                     !.height = Max(height, 1) ]
             IN  Surface_configure([ c EXCEPT !.app.renderer.config = Some(config) ],
                                   config)
        ELSE c

----------------------------------------------------------------------------
(* src/window.rs, src/input.rs *)

\* `if let Some(window) = &self.window { window.request_redraw(); }`:
\* asks the host for a redraw when a window exists
Window_request_redraw(c) ==
    IF c.app.window_manager.window # None
    THEN Call(c, "window.request_redraw") ELSE c

\* WindowManager::request_redraw
WindowManager_request_redraw(c) == Window_request_redraw(Call(c, "request_redraw"))

\* WindowManager::create_window asks for 800x600; the host answers with
\* an error or with a window whose inner size it has chosen
WindowManager_create_window(c, env) ==
    IF env.create_window # "Ok"
    THEN [ Call(c, "create_window") EXCEPT !.result = "Err(OsError)" ]
    ELSE [ Call(c, "create_window") EXCEPT
             !.app.window_manager.window = Some([ inner_size |-> env.inner_size ]),
             !.result = "Ok" ]

\* mutant: a close request is only honoured while a window exists
WindowManager_handle_window_event_guarded(c, event) ==
    CASE event.kind = "CloseRequested" ->
             IF c.app.window_manager.window # None
             THEN [ Call(c, "exit") EXCEPT !.exiting = TRUE ] ELSE c
      [] event.kind = "Resized"         -> Window_request_redraw(c)
      [] event.kind = "RedrawRequested" -> Window_request_redraw(c)
      [] OTHER -> c

\* WindowManager::handle_window_event
WindowManager_handle_window_event(c, event) ==
    CASE event.kind = "CloseRequested" -> [ Call(c, "exit") EXCEPT !.exiting = TRUE ]
      [] event.kind = "Resized"         -> Window_request_redraw(c)
      [] event.kind = "RedrawRequested" -> Window_request_redraw(c)
      [] OTHER -> c

\* InputManager::handle_event
InputManager_handle_event(c, event) ==
    IF event.kind = "KeyboardInput"
    THEN IF event.state = "Pressed"
         THEN [ c EXCEPT !.app.input_manager.keys_pressed = @ \cup { event.key } ]
         ELSE [ c EXCEPT !.app.input_manager.keys_pressed = @ \ { event.key } ]
    ELSE c

----------------------------------------------------------------------------
(* src/app.rs *)

\* the rate VellumApp::new gives GameLoop::new
UpdatesPerSecond == 60

\* VellumApp::new
VellumApp_new ==
    [ window_manager |-> [ window |-> None ],
      renderer       |-> Renderer_new,
      game_loop      |-> GameLoop_new(UpdatesPerSecond),
      input_manager  |-> [ keys_pressed |-> {} ] ]

\* mutant: resumed initializes whenever the graphics context is not Ready,
\* also when the window already exists
VellumApp_resumed_reinit(c, env) ==
    LET c1 == IF c.app.window_manager.window = None
              THEN WindowManager_create_window(c, env)
              ELSE [ c EXCEPT !.result = "Ok" ]
    IN  IF c1.result # "Ok"
        THEN [ Call(c1, "exit") EXCEPT !.exiting = TRUE ]
        ELSE IF c1.app.renderer.device = None
        THEN LET c2 == Renderer_initialize(c1, Unwrap(c1.app.window_manager.window), env)
             IN  IF c2.fault # "none" THEN c2
                 ELSE IF c2.result # "Ok"
                 THEN [ Call(c2, "exit") EXCEPT !.exiting = TRUE ]
                 ELSE c2
        ELSE c1

\* ApplicationHandler::resumed
VellumApp_resumed(c, env) ==
    IF c.app.window_manager.window = None
    THEN LET c1 == WindowManager_create_window(c, env)
         IN  IF c1.result # "Ok"
             THEN [ Call(c1, "exit") EXCEPT !.exiting = TRUE ]
             ELSE IF c1.app.window_manager.window # None
             THEN LET c2 == Renderer_initialize(c1, Unwrap(c1.app.window_manager.window), env)
                  IN  IF c2.fault # "none" THEN c2
                      ELSE IF c2.result # "Ok"
                      THEN [ Call(c2, "exit") EXCEPT !.exiting = TRUE ]
                      ELSE c2
             ELSE c1
    ELSE c

\* ApplicationHandler::window_event
VellumApp_window_event(c, event) ==
    LET c1 == InputManager_handle_event(c, event)
    IN  IF event.kind = "Resized"
        THEN LET c2 == Renderer_resize(c1, event.size[1], event.size[2])
             IN  IF c2.fault # "none" THEN c2
                 ELSE WindowManager_handle_window_event(c2, event)
        ELSE WindowManager_handle_window_event(c1, event)

\* mutant: the vertex buffer is not rebuilt after an update
UpdateStep_no_rebuild(c, delta_time) ==
    [ Call(c, "scene.update") EXCEPT
        !.app.renderer.scene = Scene_update(@, delta_time),
        !.scene_time = @ + delta_time ]

\* the body of the for loop of about_to_wait: update the scene with the
\* frame's delta_time, then rebuild the vertex buffer when a device exists
UpdateStep(c, delta_time) ==
    LET c1 == [ Call(c, "scene.update") EXCEPT
                  !.app.renderer.scene = Scene_update(@, delta_time),
                  !.scene_time = @ + delta_time ]
    IN  IF c1.app.renderer.device # None
        THEN [ Call(c1, "create_buffer_init") EXCEPT
                 !.app.renderer.scene = Scene_initialize_buffer(@) ]
        ELSE c1

\* for _ in 0..update_count: the body, update_count times
RECURSIVE UpdateLoop(_, _, _)
UpdateLoop(c, update_count, delta_time) ==
    IF update_count = 0 THEN c
    ELSE UpdateStep(UpdateLoop(c, update_count - 1, delta_time), delta_time)

\* mutant: the frame is rendered before the scene is updated
VellumApp_about_to_wait_render_first(c, delta_time, acquire, build) ==
    LET t  == GameLoop_tick(c.app.game_loop, delta_time)
        c1 == [ Call(c, "tick") EXCEPT !.app.game_loop = t.game_loop ]
        c2 == Renderer_render(Call(c1, "render"), acquire)
        c3 == UpdateLoop(c2, t.update_count, t.delta_time)
    IN  IF t.overflow THEN [ c1 EXCEPT !.fault = TickFault(build) ]
        ELSE IF c3.fault # "none" THEN c3 ELSE WindowManager_request_redraw(c3)

\* ApplicationHandler::about_to_wait; `delta_time` is the time since the
\* previous tick, `acquire` what get_current_texture answers, `build` the
\* kind of build running
VellumApp_about_to_wait(c, delta_time, acquire, build) ==
    LET t  == GameLoop_tick(c.app.game_loop, delta_time)
        c1 == [ Call(c, "tick") EXCEPT !.app.game_loop = t.game_loop ]
        c2 == UpdateLoop(c1, t.update_count, t.delta_time)
        c3 == Renderer_render(Call(c2, "render"), acquire)
    IN  IF t.overflow THEN [ c1 EXCEPT !.fault = TickFault(build) ]
        ELSE IF c3.fault # "none" THEN c3 ELSE WindowManager_request_redraw(c3)

----------------------------------------------------------------------------
(* What the host and the GPU driver may deliver *)

Widths  == (0..MaxDim) \cup { 800 }
Heights == { 0, 5, 600 }
Sizes   == Widths \X Heights

Outcomes == { "Ok", "Err" }

\* surface capabilities the driver may report; an adapter that cannot
\* present to the surface reports no format
Capabilities ==
    { [ formats |-> <<>>, alpha_modes |-> << "Opaque" >> ],
      [ formats |-> << "Bgra8UnormSrgb", "Rgba8UnormSrgb" >>, alpha_modes |-> << "Opaque" >> ],
      [ formats |-> << "Rgba8UnormSrgb" >>, alpha_modes |-> << "PreMultiplied", "Opaque" >> ] }

\* everything the environment decides during one `resumed`.  An answer
\* that is never asked for (the fallback adapter when the first request
\* succeeds, anything after the step that fails) is left at its default, so
\* that each course of events is drawn once.
AllEnvs ==
    { [ create_window    |-> cw,
        inner_size       |-> sz,
        create_surface   |-> cs,
        adapter_first    |-> a1,
        adapter_fallback |-> a2,
        request_device   |-> rd,
        formats          |-> caps.formats,
        alpha_modes      |-> caps.alpha_modes,
        pipeline         |-> pl ] :
      cw \in Outcomes, sz \in Sizes, cs \in Outcomes, a1 \in Outcomes,
      a2 \in Outcomes, rd \in Outcomes, caps \in Capabilities,
      pl \in { "Ok", "Invalid" } }

DefaultCaps == [ formats |-> << "Rgba8UnormSrgb" >>, alpha_modes |-> << "PreMultiplied", "Opaque" >> ]

Asked(e) ==
    LET rest(fields) == \A f \in fields : e[f] = "Ok"
        caps_default == e.formats = DefaultCaps.formats /\ e.alpha_modes = DefaultCaps.alpha_modes
        no_adapter   == e.adapter_first # "Ok" /\ e.adapter_fallback # "Ok"
    IN  /\ e.create_window # "Ok" =>
             /\ rest({ "create_surface", "adapter_first", "adapter_fallback",
                       "request_device", "pipeline" })
             /\ caps_default /\ e.inner_size = <<800, 600>>
        /\ e.create_surface # "Ok" =>
             /\ rest({ "adapter_first", "adapter_fallback", "request_device", "pipeline" })
             /\ caps_default
        /\ e.adapter_first = "Ok" => e.adapter_fallback = "Ok"
        /\ no_adapter => rest({ "request_device", "pipeline" }) /\ caps_default
        /\ e.request_device # "Ok" => rest({ "pipeline" }) /\ caps_default
        /\ e.formats = <<>> => rest({ "pipeline" })
        /\ (e.inner_size[1] = 0 \/ e.inner_size[2] = 0) => rest({ "pipeline" })

InitEnvs == { e \in AllEnvs : Asked(e) }

\* the environment in which nothing fails and the window is 800x600
DefaultEnv ==
    [ create_window    |-> "Ok",
      inner_size       |-> <<800, 600>>,
      create_surface   |-> "Ok",
      adapter_first    |-> "Ok",
      adapter_fallback |-> "Ok",
      request_device   |-> "Ok",
      formats          |-> DefaultCaps.formats,
      alpha_modes      |-> DefaultCaps.alpha_modes,
      pipeline         |-> "Ok" ]

Keys == { "KeyW" }

Event(kind, size, key, state) ==
    [ kind |-> kind, size |-> size, key |-> key, state |-> state ]

WindowEvents ==
    { Event("Resized", sz, "", "") : sz \in Sizes }
    \cup { Event("CloseRequested", <<0, 0>>, "", ""),
           Event("RedrawRequested", <<0, 0>>, "", ""),
           Event("Focused", <<0, 0>>, "", "") }
    \cup { Event("KeyboardInput", <<0, 0>>, k, st) :
             k \in Keys, st \in { "Pressed", "Released" } }

\* what get_current_texture may answer
Acquires == { "Ok", "Lost", "Timeout" }

\* time between two idle ticks, application specification
FrameDeltas == { 0, Millis(20), Millis(50) }

\* time between two tick() calls, clock specification
ClockDeltas == { 0, 1, Millis(16), Duration_from_rate(UpdatesPerSecond),
                 Millis(20), Millis(500) }

\* the first step of initialize (numbered as in the design, 1..7) at which
\* the environment `env` makes it fail on a window of size `size`; 0 if none
FailedStep(env, size) ==
    IF env.create_surface # "Ok" THEN 2
    ELSE IF env.adapter_first # "Ok" /\ env.adapter_fallback # "Ok" THEN 3
    ELSE IF env.request_device # "Ok" THEN 4
    ELSE IF env.formats = <<>> \/ env.alpha_modes = <<>> THEN 5
    ELSE IF size[1] = 0 \/ size[2] = 0 THEN 6
    ELSE IF env.pipeline # "Ok" THEN 7
    ELSE 0

----------------------------------------------------------------------------
(* The state machine *)

Init ==
    /\ app = VellumApp_new
    /\ surface_config = None
    /\ exiting = FALSE
    /\ fault = "none"
    /\ trace = <<>>
    /\ drawn = None
    /\ last_event = Event("None", <<0, 0>>, "", "")
    /\ repeated = FALSE
    /\ init = [ calls |-> 0, result |-> "none", failed_step |-> 0 ]
    /\ clock = [ ticks |-> 0, elapsed |-> 0, updates |-> 0, scene_time |-> 0 ]
    /\ last_tick = [ bucket |-> 0, delta_time |-> 0, update_count |-> 0 ]
    /\ acquired = "none"
    /\ answers = None
    /\ rebuilt = FALSE

Commit(c) ==
    /\ app' = c.app
    /\ surface_config' = c.surface_config
    /\ exiting' = c.exiting
    /\ fault' = c.fault
    /\ trace' = c.trace
    /\ drawn' = c.drawn

InTrace(tr, name) == \E i \in 1..Len(tr) : tr[i] = name

\* the host delivers `resumed`
Resumed ==
    /\ fault = "none"
    /\ \E env \in (IF app.window_manager.window = None THEN InitEnvs ELSE { DefaultEnv }) :
         LET c == VellumApp_resumed(Ctx, env)
         IN  /\ Commit(c)
             /\ init' = IF InTrace(c.trace, "Instance::new")
                        THEN [ calls       |-> init.calls + 1,
                               result      |-> c.result,
                               failed_step |-> FailedStep(env, env.inner_size) ]
                        ELSE init
             /\ answers' = IF InTrace(c.trace, "create_window") THEN Some(env) ELSE None
    /\ last_event' = Event("Resumed", <<0, 0>>, "", "")
    /\ repeated' = FALSE
    /\ acquired' = "none"
    /\ rebuilt' = (rebuilt \/ InTrace(trace', "create_buffer_init"))
    /\ UNCHANGED <<clock, last_tick>>

\* the host delivers a window event; a Resized event tells the size the
\* window now has
WindowEvent ==
    /\ fault = "none"
    /\ \E event \in WindowEvents :
         LET c0 == IF event.kind = "Resized" /\ app.window_manager.window # None
                   THEN [ Ctx EXCEPT !.app.window_manager.window =
                                         Some([ inner_size |-> event.size ]) ]
                   ELSE Ctx
         IN  /\ Commit(VellumApp_window_event(c0, event))
             /\ last_event' = event
             /\ repeated' = (event.kind = "Resized" /\ last_event = event)
    /\ acquired' = "none"
    /\ answers' = None
    /\ rebuilt' = (rebuilt \/ InTrace(trace', "create_buffer_init"))
    /\ UNCHANGED <<init, clock, last_tick>>

\* the host delivers `about_to_wait`
AboutToWait ==
    /\ fault = "none"
    /\ clock.ticks < MaxFrames
    /\ \E delta_time \in FrameDeltas, acquire \in Acquires :
         LET t == GameLoop_tick(app.game_loop, delta_time)
         IN  \E build \in (IF t.overflow THEN Builds ELSE { "debug" }) :
             LET c == VellumApp_about_to_wait(Ctx, delta_time, acquire, build)
             IN
             /\ Commit(c)
             /\ clock' = [ ticks      |-> clock.ticks + 1,
                           elapsed    |-> clock.elapsed + delta_time,
                           updates    |-> clock.updates + t.update_count,
                           scene_time |-> clock.scene_time + c.scene_time ]
             /\ last_tick' = [ bucket       |-> app.game_loop.accumulated_time,
                               delta_time   |-> delta_time,
                               update_count |-> t.update_count ]
             /\ acquired' = IF InTrace(c.trace, "get_current_texture")
                            THEN acquire ELSE "none"
    /\ last_event' = Event("AboutToWait", <<0, 0>>, "", "")
    /\ repeated' = FALSE
    /\ answers' = None
    /\ rebuilt' = (rebuilt \/ InTrace(trace', "create_buffer_init"))
    /\ UNCHANGED init

Next == Resumed \/ WindowEvent \/ AboutToWait

Spec == Init /\ [][Next]_vars

\* GameLoop::tick called on its own, with any of ClockDeltas between calls
ClockTick ==
    /\ fault = "none"
    /\ clock.ticks < MaxTicks
    /\ \E delta_time \in ClockDeltas :
         LET t == GameLoop_tick(app.game_loop, delta_time)
         IN  /\ clock.elapsed + delta_time <= MaxElapsed
             /\ app' = [ app EXCEPT !.game_loop = t.game_loop ]
             /\ \E build \in (IF t.overflow THEN Builds ELSE { "debug" }) :
                   fault' = IF t.overflow THEN TickFault(build) ELSE fault
             /\ clock' = IF t.overflow THEN clock
                         ELSE [ clock EXCEPT !.ticks   = @ + 1,
                                             !.elapsed = @ + delta_time,
                                             !.updates = @ + t.update_count ]
             /\ last_tick' = IF t.overflow THEN last_tick
                             ELSE [ bucket       |-> app.game_loop.accumulated_time,
                                    delta_time   |-> delta_time,
                                    update_count |-> t.update_count ]
    /\ UNCHANGED <<surface_config, exiting, trace, drawn, last_event,
                   repeated, init, acquired, answers, rebuilt>>

NextClock == ClockTick

SpecClock == Init /\ [][NextClock]_vars

\* the rates GameLoop::new is given in the rate specification: whole
\* numbers of updates per second, the last one so high that the period,
\* under half a nanosecond, becomes a Duration of zero
Rates == { 1, UpdatesPerSecond, 2 * UpdatesPerSecond, 2100000000 }

\* a clock built by GameLoop::new for any of Rates
InitRates ==
    /\ \E updates_per_second \in Rates :
         app = [ VellumApp_new EXCEPT !.game_loop = GameLoop_new(updates_per_second) ]
    /\ surface_config = None
    /\ exiting = FALSE
    /\ fault = "none"
    /\ trace = <<>>
    /\ drawn = None
    /\ last_event = Event("None", <<0, 0>>, "", "")
    /\ repeated = FALSE
    /\ init = [ calls |-> 0, result |-> "none", failed_step |-> 0 ]
    /\ clock = [ ticks |-> 0, elapsed |-> 0, updates |-> 0, scene_time |-> 0 ]
    /\ last_tick = [ bucket |-> 0, delta_time |-> 0, update_count |-> 0 ]
    /\ acquired = "none"
    /\ answers = None
    /\ rebuilt = FALSE

SpecRates == InitRates /\ [][NextClock]_vars

\* Scene's functions on their own, over entity lists that Scene::new does
\* not build: vertex lists of length 0, 1 and 3, at two offsets
SceneVertexLists ==
    { <<>>, << <<PosScale \div 10, -(PosScale \div 5)>> >>, Scene_new.entities[1].vertices }

SceneOffsets == { <<0, 0>>, <<PosScale \div 4, -(PosScale \div 4)>> }

SceneEntities == [ vertices : SceneVertexLists, position : SceneOffsets ]

EntityLists == UNION { [ 1..n -> SceneEntities ] : n \in 0..MaxEntities }

InitScene ==
    /\ \E entities \in EntityLists :
         app = [ VellumApp_new EXCEPT !.renderer.scene.entities = entities ]
    /\ surface_config = None
    /\ exiting = FALSE
    /\ fault = "none"
    /\ trace = <<>>
    /\ drawn = None
    /\ last_event = Event("None", <<0, 0>>, "", "")
    /\ repeated = FALSE
    /\ init = [ calls |-> 0, result |-> "none", failed_step |-> 0 ]
    /\ clock = [ ticks |-> 0, elapsed |-> 0, updates |-> 0, scene_time |-> 0 ]
    /\ last_tick = [ bucket |-> 0, delta_time |-> 0, update_count |-> 0 ]
    /\ acquired = "none"
    /\ answers = None
    /\ rebuilt = FALSE

\* Scene::initialize_buffer called with some device
SceneRebuild ==
    /\ app' = [ app EXCEPT !.renderer.scene = Scene_initialize_buffer(@) ]
    /\ trace' = << "create_buffer_init" >>
    /\ last_event' = Event("Rebuild", <<0, 0>>, "", "")
    /\ rebuilt' = TRUE
    /\ UNCHANGED <<surface_config, exiting, fault, drawn, repeated, init,
                   clock, last_tick, acquired, answers>>

\* Scene::update called with some delta_time
SceneUpdate ==
    /\ clock.updates < MaxFrames
    /\ \E delta_time \in FrameDeltas \ { 0 } :
         /\ app' = [ app EXCEPT !.renderer.scene = Scene_update(@, delta_time) ]
         /\ clock' = [ clock EXCEPT !.updates = @ + 1,
                                    !.scene_time = @ + delta_time ]
    /\ trace' = << "scene.update" >>
    /\ last_event' = Event("Update", <<0, 0>>, "", "")
    /\ UNCHANGED <<surface_config, exiting, fault, drawn, repeated, init,
                   last_tick, acquired, answers, rebuilt>>

NextScene == SceneRebuild \/ SceneUpdate

SpecScene == InitScene /\ [][NextScene]_vars

----------------------------------------------------------------------------
(* Vocabulary of the properties *)

FiveFields(r) == << r.device, r.queue, r.surface, r.config, r.render_pipeline >>

\* the graphics context holds none of its five resources
Uninitialized(r) == \A i \in 1..5 : FiveFields(r)[i] = None

\* the graphics context holds all five
Ready(r) == \A i \in 1..5 : FiveFields(r)[i] # None

InitErrors ==
    { "Err(Failed to create surface)",
      "Err(Failed to find any suitable GPU adapter.)",
      "Err(Failed to request device)" }

Clamp(size) == << Max(size[1], 1), Max(size[2], 1) >>

ConfigSize(r) == << Unwrap(r.config).width, Unwrap(r.config).height >>

\* how many times the last handler made the call `name`
CountIn(tr, name) == Cardinality({ i \in 1..Len(tr) : tr[i] = name })

\* the renderer's stored fields apart from the entities Scene::update moves
StoredFields(r) == << FiveFields(r), r.scene.vertex_buffer >>

----------------------------------------------------------------------------
(* C1: while the graphics context is Uninitialized, a handler that calls   *)
(* Renderer::render (about_to_wait) or Renderer::resize (a Resized window  *)
(* event) makes no GPU call, changes no stored field of the renderer,      *)
(* leaves the surface as it was and does not panic.                        *)
C1_UninitializedNoOp ==
    [][ ( /\ Uninitialized(app.renderer)
          /\ last_event'.kind \in { "AboutToWait", "Resized" } )
        => /\ GpuCallsOf(trace') = {}
           /\ StoredFields(app'.renderer) = StoredFields(app.renderer)
           /\ (last_event'.kind = "Resized" => app'.renderer = app.renderer)
           /\ surface_config' = surface_config
           /\ drawn' = None
           /\ fault' = "none" ]_vars

\* a failed initialize, then idle ticks, then a Resized(0, 0), all as no-ops
C1_Witness ==
    /\ Uninitialized(app.renderer)
    /\ init.calls = 1 /\ init.result \in InitErrors
    /\ app.window_manager.window # None
    /\ clock.ticks >= 1
    /\ last_event.kind = "Resized" /\ last_event.size = <<0, 0>>
    /\ GpuCallsOf(trace) = {}

(* C2: in every reachable state the five resource fields are all absent   *)
(* or all present, also after initialize failed or panicked at any step.  *)
C2_AllOrNothing == Uninitialized(app.renderer) \/ Ready(app.renderer)

\* initialize failed at the device request, after surface and adapter
\* had been obtained; nothing was stored
C2_Witness ==
    /\ init.calls = 1 /\ init.failed_step = 4
    /\ init.result = "Err(Failed to request device)"
    /\ Uninitialized(app.renderer)

(* C3 (as claimed): every failure in steps 1-7 of initialize leaves the   *)
(* context Uninitialized and comes back as an error value, never as a     *)
(* panic.                                                                 *)
C3_Original ==
    init.failed_step # 0 =>
        /\ Uninitialized(app.renderer)
        /\ init.result \in InitErrors
        /\ fault = "none"

(* C4 (as claimed): in every Ready state the stored configuration is at   *)
(* least 1x1 and equals the window's latest size clamped to >= 1; and     *)
(* initialize reaches such a state for every window size, a zero width or *)
(* height included, when nothing else fails.                              *)
C4_Original ==
    /\ Ready(app.renderer) =>
         /\ Unwrap(app.renderer.config).width >= 1
         /\ Unwrap(app.renderer.config).height >= 1
         /\ ConfigSize(app.renderer) =
              Clamp(Unwrap(app.window_manager.window).inner_size)
    /\ (init.calls > 0 /\ init.failed_step \in { 0, 6 }) => Ready(app.renderer)

(* C5: in the Ready state a Resized(w, h) leaves the stored configuration *)
(* with width max(w, 1) and height max(h, 1) and its format, alpha mode   *)
(* and present mode unchanged; (0, 0) gives (1, 1) and (0, 5) gives       *)
(* (1, 5).                                                                *)
C5_ResizeClamps ==
    [][ ( Ready(app.renderer) /\ last_event'.kind = "Resized" )
        => /\ app'.renderer.config =
                Some([ Unwrap(app.renderer.config) EXCEPT
                         !.width  = Max(last_event'.size[1], 1),
                         !.height = Max(last_event'.size[2], 1) ])
           /\ (last_event'.size = <<0, 0>> => ConfigSize(app'.renderer) = <<1, 1>>)
           /\ (last_event'.size = <<0, 5>> => ConfigSize(app'.renderer) = <<1, 5>>) ]_vars

\* resize(0, 5) has run in the Ready state
C5_Witness ==
    /\ Ready(app.renderer)
    /\ last_event.kind = "Resized" /\ last_event.size = <<0, 5>>
    /\ ConfigSize(app.renderer) = <<1, 5>>
    /\ InTrace(trace, "surface.configure")

(* C6: a Resized(w, h) that follows a Resized with the same (w, h)        *)
(* changes nothing in the renderer and leaves the surface configured as   *)
(* the first one left it, in the Ready state and in Uninitialized.        *)
C6_ResizeIdempotent ==
    [][ repeated' => /\ app'.renderer = app.renderer
                      /\ surface_config' = surface_config
                      /\ fault' = fault ]_vars

\* the same resize twice in a row in the Ready state, with a size that
\* differs from the one the window was created with
C6_Witness ==
    /\ repeated
    /\ Ready(app.renderer)
    /\ last_event.size = <<0, 5>>
    /\ ConfigSize(app.renderer) = <<1, 5>>

(* C7: once the five resources are present they stay present: no resize,  *)
(* render (surface lost or another acquisition error included), idle      *)
(* tick, keyboard event or resumed clears one of them.                    *)
C7_ReadyForever ==
    [][ Ready(app.renderer) =>
          /\ Ready(app'.renderer)
          /\ app'.renderer.device = app.renderer.device
          /\ app'.renderer.queue = app.renderer.queue
          /\ app'.renderer.surface = app.renderer.surface
          /\ app'.renderer.render_pipeline = app.renderer.render_pipeline ]_vars

\* a render whose texture acquisition reported "surface lost": the surface
\* was reconfigured, nothing was presented, the context is still Ready
C7_Witness ==
    /\ Ready(app.renderer)
    /\ last_event.kind = "AboutToWait"
    /\ InTrace(trace, "get_current_texture")
    /\ InTrace(trace, "surface.configure")
    /\ ~ InTrace(trace, "present")

(* C8: after every tick(), 0 <= accumulated_time < update_rate.           *)
C8_BucketInRange ==
    /\ 0 <= app.game_loop.accumulated_time
    /\ app.game_loop.accumulated_time < app.game_loop.update_rate

\* a tick that ran at least one update and left a non-empty bucket
C8_Witness ==
    /\ clock.ticks >= 2
    /\ last_tick.bucket > 0
    /\ last_tick.update_count >= 1
    /\ app.game_loop.accumulated_time > 0

(* C9: the updates returned so far, times the update period, never exceed *)
(* the time fed in so far.                                                *)
C9_NeverAhead ==
    clock.updates * app.game_loop.update_rate <= clock.elapsed

\* several ticks, updates returned, and time left over
C9_Witness ==
    /\ clock.ticks >= 3
    /\ clock.updates >= 2
    /\ clock.updates * app.game_loop.update_rate < clock.elapsed

(* C10 (as claimed): at 60 updates per second, a tick that finds an empty *)
(* bucket and 500 ms elapsed returns 30.                                  *)
C10_Original ==
    ( /\ app.game_loop.update_rate = Duration_from_rate(60)
      /\ clock.ticks >= 1
      /\ last_tick.bucket = 0 /\ last_tick.delta_time = Millis(500) )
    => last_tick.update_count = 30

(* C10 (amended): that tick returns 29 and leaves 500 ms - 29 periods in  *)
(* the bucket: the period GameLoop::new computes is 16,666,667 ns, and 30 *)
(* of them are 10 ns more than 500 ms.  The burst is not clamped: 29 is   *)
(* every whole period the 500 ms hold.                                    *)
C10_Amended ==
    ( /\ app.game_loop.update_rate = Duration_from_rate(60)
      /\ clock.ticks >= 1
      /\ last_tick.bucket = 0 /\ last_tick.delta_time = Millis(500) )
    => /\ last_tick.update_count = 29
       /\ app.game_loop.accumulated_time =
            Millis(500) - 29 * app.game_loop.update_rate
       /\ 30 * app.game_loop.update_rate > Millis(500)

\* the 500 ms stall observed on an empty bucket, after an earlier tick
C10_Witness ==
    /\ clock.ticks >= 2
    /\ last_tick.bucket = 0 /\ last_tick.delta_time = Millis(500)
    /\ last_tick.update_count > 1

----------------------------------------------------------------------------
(* C11  The update steps are fixed-size: after any sequence of idle ticks   *)
(* the simulated time handed to Scene::update (the sum of its delta_time    *)
(* arguments) is the number of update calls times the update period, so it  *)
(* never exceeds the elapsed time and lags it by less than one period.      *)
(* The code hands every update the frame's delta_time (app.rs:66), so this  *)
(* statement does not hold of it.                                           *)
C11_Original ==
    /\ clock.scene_time = clock.updates * app.game_loop.update_rate
    /\ clock.scene_time <= clock.elapsed
    /\ clock.elapsed - clock.scene_time < app.game_loop.update_rate

(* C12  In Ready, when get_current_texture fails, the idle tick's render   *)
(* draws, submits and presents nothing, raises no error and leaves the      *)
(* renderer's resources as they were (the whole renderer when the tick ran  *)
(* no update); a Lost surface gets the stored configuration applied exactly *)
(* once, any other error no configure call at all.                          *)
C12_FailedAcquire ==
    [][ (Ready(app.renderer) /\ acquired' \in { "Lost", "Timeout" }) =>
          /\ drawn' = None
          /\ \A name \in { "create_command_encoder", "draw", "queue.submit", "present" } :
                ~ InTrace(trace', name)
          /\ fault' = "none"
          /\ FiveFields(app'.renderer) = FiveFields(app.renderer)
          /\ last_tick'.update_count = 0 => app'.renderer = app.renderer
          /\ CountIn(trace', "surface.configure") = IF acquired' = "Lost" THEN 1 ELSE 0
          /\ acquired' = "Lost" => surface_config' = app.renderer.config
          /\ acquired' # "Lost" => surface_config' = surface_config
      ]_vars

C12_Witness ==
    /\ Ready(app.renderer)
    /\ acquired = "Lost"
    /\ CountIn(trace, "surface.configure") = 1
    /\ surface_config = app.renderer.config
    /\ last_tick.update_count > 0

(* C13  Whenever render issues a draw, the vertex buffer it binds holds    *)
(* the world-space vertices of the entities as they are at that moment,     *)
(* and the draw covers exactly those vertices: no frame is drawn from a     *)
(* stale buffer.  (render is the last step of its handler, so the entities  *)
(* after the handler are the entities at the draw.)                         *)
C13_NeverStale ==
    drawn # None =>
      /\ Unwrap(drawn).vertices = FlatVertices(app.renderer.scene.entities)
      /\ Unwrap(drawn).vertex_count = Len(Unwrap(drawn).vertices)

C13_Witness ==
    /\ drawn # None
    /\ InTrace(trace, "draw")
    /\ last_tick.update_count > 0
    /\ app.renderer.scene.entities[1].position[1] > 0
    /\ Unwrap(drawn).vertices[1][1] = app.renderer.scene.entities[1].position[1]

(* C14  After a rebuild, vertex_count() is the number of vertices written  *)
(* to the buffer, which is the sum of the entities' vertex counts, and the  *)
(* vertex written for vertex j of entity e is its local position plus the   *)
(* entity's offset; the scene Scene::new builds gives 3 vertices, equal to  *)
(* the local ones.                                                          *)
C14_RebuildCounts ==
    last_event.kind = "Rebuild" =>
      LET scene    == app.renderer.scene
          entities == scene.entities
          written  == Unwrap(scene.vertex_buffer)
          Slots    == UNION { { <<e, j>> : j \in 1..Len(entities[e].vertices) } :
                              e \in 1..Len(entities) }
          Before(e) == Cardinality({ p \in Slots : p[1] < e })
      IN  /\ scene.vertex_buffer # None
          /\ Scene_vertex_count(scene) = Len(written)
          /\ Len(written) = Cardinality(Slots)
          /\ \A p \in Slots :
                written[Before(p[1]) + p[2]] =
                    << entities[p[1]].vertices[p[2]][1] + entities[p[1]].position[1],
                       entities[p[1]].vertices[p[2]][2] + entities[p[1]].position[2] >>
          /\ entities = Scene_new.entities =>
                Len(written) = 3 /\ written = Scene_new.entities[1].vertices

C14_Witness ==
    /\ last_event.kind = "Rebuild"
    /\ Len(app.renderer.scene.entities) = 2
    /\ Len(app.renderer.scene.entities[1].vertices) = 3
    /\ Len(app.renderer.scene.entities[2].vertices) = 1
    /\ app.renderer.scene.entities[1].position[1] > PosScale \div 4
    /\ Len(Unwrap(app.renderer.scene.vertex_buffer)) = 4

(* C15  Every idle event runs, in this order: tick() once; Scene::update   *)
(* exactly update_count times, each followed by a vertex-buffer rebuild     *)
(* when the device exists; then render() once, with only render's own GPU   *)
(* calls after it; then request_redraw() once, which asks the host for the  *)
(* next frame when a window exists.  No render falls between two updates.   *)
C15_FrameOrder ==
    [][ last_event'.kind = "AboutToWait" =>
          LET n     == last_tick'.update_count
              step  == IF app.renderer.device # None
                       THEN << "scene.update", "create_buffer_init" >>
                       ELSE << "scene.update" >>
              k     == Len(step)
              tail  == IF app.window_manager.window # None
                       THEN << "request_redraw", "window.request_redraw" >>
                       ELSE << "request_redraw" >>
              tr    == trace'
              first == 1 + n * k + 1
              last  == Len(tr) - Len(tail)
          IN  /\ first <= last
              /\ tr[1] = "tick"
              /\ \A i \in 1..n : SubSeq(tr, 2 + (i - 1) * k, 1 + i * k) = step
              /\ tr[first] = "render"
              /\ \A i \in (first + 1)..last :
                    tr[i] \in GpuCalls \ { "create_buffer_init" }
              /\ SubSeq(tr, last + 1, Len(tr)) = tail
              /\ CountIn(tr, "tick") = 1
              /\ CountIn(tr, "scene.update") = n
              /\ CountIn(tr, "render") = 1
              /\ CountIn(tr, "request_redraw") = 1
      ]_vars

C15_Witness ==
    /\ last_event.kind = "AboutToWait"
    /\ last_tick.update_count >= 2
    /\ Ready(app.renderer)
    /\ CountIn(trace, "create_buffer_init") = last_tick.update_count
    /\ InTrace(trace, "queue.submit")
    /\ trace[Len(trace)] = "window.request_redraw"

(* C16  When window creation or Renderer::initialize fails during          *)
(* resumed, that same handler requests termination of the host loop and     *)
(* the graphics context stays Uninitialized; no idle tick after a failed    *)
(* initialization makes a GPU call.  A failure of steps 5 to 7 is a panic   *)
(* in the code (C3, C4): the handler never reaches event_loop.exit().       *)
C16_Original ==
    /\ ( /\ last_event.kind = "Resumed"
         /\ InTrace(trace, "create_window")
         /\ app.window_manager.window = None \/ init.failed_step # 0 )
       => /\ exiting
          /\ trace[Len(trace)] = "exit"
          /\ fault = "none"
          /\ Uninitialized(app.renderer)
    /\ (init.failed_step # 0 /\ last_event.kind = "AboutToWait")
       => GpuCallsOf(trace) = {} /\ Uninitialized(app.renderer)

(* C17  A CloseRequested window event makes the handler call               *)
(* event_loop.exit() in every state (window absent or present, graphics     *)
(* context Uninitialized or Ready); no other window event (Resized,         *)
(* RedrawRequested, Focused, KeyboardInput) calls it or changes whether     *)
(* termination has been requested.                                          *)
C17_OnlyCloseExits ==
    [][ last_event' \in WindowEvents =>
          IF last_event'.kind = "CloseRequested"
          THEN exiting' /\ CountIn(trace', "exit") = 1
          ELSE ~ InTrace(trace', "exit") /\ exiting' = exiting
      ]_vars

C17_Witness ==
    /\ last_event.kind = "CloseRequested"
    /\ Ready(app.renderer)
    /\ exiting
    /\ trace = << "exit" >>

(* C18  A RedrawRequested window event runs one frame cycle, as the idle   *)
(* event does: tick(), the updates it reports, one render(), one            *)
(* request_redraw().  In the code the event only reaches                    *)
(* WindowManager::handle_window_event, which asks the host for another      *)
(* redraw and nothing else.                                                 *)
C18_Original ==
    last_event.kind = "RedrawRequested" =>
      /\ CountIn(trace, "tick") = 1
      /\ CountIn(trace, "render") = 1
      /\ InTrace(trace, "window.request_redraw")
             \/ app.window_manager.window = None

(* C19  With a positive period, tick() returns                              *)
(* floor((leftover_before + elapsed) / period) and leaves                   *)
(* (leftover_before + elapsed) mod period in the bucket, for every leftover *)
(* in [0, period) and every elapsed time; at 60 updates per second the      *)
(* first tick after 16 ms returns 0 and keeps 16 ms, and a second tick      *)
(* after another 16 ms returns 1.                                           *)
C19_FloorAndRemainder ==
    (clock.ticks >= 1 /\ app.game_loop.update_rate > 0) =>
      LET period == app.game_loop.update_rate
          total  == last_tick.bucket + last_tick.delta_time
      IN  /\ last_tick.bucket \in 0..(period - 1)
          /\ last_tick.update_count = total \div period
          /\ app.game_loop.accumulated_time = total % period
          /\ ( /\ period = Duration_from_rate(UpdatesPerSecond)
               /\ clock.ticks = 1 /\ last_tick.delta_time = Millis(16) )
             => /\ last_tick.update_count = 0
                /\ app.game_loop.accumulated_time = Millis(16)
          /\ ( /\ period = Duration_from_rate(UpdatesPerSecond)
               /\ clock.ticks = 2 /\ clock.elapsed = Millis(32)
               /\ last_tick.delta_time = Millis(16) )
             => last_tick.update_count = 1

C19_Witness ==
    /\ app.game_loop.update_rate = Duration_from_rate(UpdatesPerSecond)
    /\ clock.ticks = 2 /\ clock.elapsed = Millis(32)
    /\ last_tick.bucket = Millis(16) /\ last_tick.delta_time = Millis(16)
    /\ last_tick.update_count = 1
    /\ app.game_loop.accumulated_time = Millis(32) - Duration_from_rate(UpdatesPerSecond)

(* C20  tick() has no failure mode: for every positive rate GameLoop::new   *)
(* accepts, rates whose period rounds to zero nanoseconds included, and     *)
(* every elapsed time, the catch-up loop ends and a count is returned       *)
(* without overflowing the u32 counter.  With a period of zero the loop's   *)
(* guard never fails, so the statement does not hold of the code.           *)
C20_Original ==
    \A build \in Builds : fault # TickFault(build)

(* C21  In initialize the second adapter request (no surface              *)
(* compatibility, fallback forced) is made if and only if the first finds   *)
(* no adapter; when both fail, initialize returns the no-adapter error      *)
(* without requesting a device, configuring the surface or storing a        *)
(* resource; a failed device request returns the device-request error,      *)
(* which is a different one.                                                *)
C21_AdapterFallback ==
    (answers # None /\ InTrace(trace, "request_adapter")) =>
      LET env        == Unwrap(answers)
          no_adapter == env.adapter_first # "Ok" /\ env.adapter_fallback # "Ok"
      IN  /\ CountIn(trace, "request_adapter") = 1
          /\ CountIn(trace, "request_adapter(fallback)") =
                 IF env.adapter_first # "Ok" THEN 1 ELSE 0
          /\ no_adapter =>
                /\ init.result = "Err(Failed to find any suitable GPU adapter.)"
                /\ \A name \in { "request_device", "get_capabilities",
                                  "surface.configure", "create_buffer_init" } :
                      ~ InTrace(trace, name)
                /\ surface_config = None
                /\ Uninitialized(app.renderer)
                /\ app.renderer.scene.vertex_buffer = None
          /\ (~ no_adapter /\ env.request_device # "Ok") =>
                /\ init.result = "Err(Failed to request device)"
                /\ init.result # "Err(Failed to find any suitable GPU adapter.)"
                /\ CountIn(trace, "request_device") = 1
                /\ Uninitialized(app.renderer)
          /\ ~ no_adapter => InTrace(trace, "request_device")

C21_Witness ==
    /\ answers # None
    /\ Unwrap(answers).adapter_first # "Ok"
    /\ Unwrap(answers).adapter_fallback = "Ok"
    /\ InTrace(trace, "request_adapter(fallback)")
    /\ Ready(app.renderer)

(* C22  Over any sequence of host events, repeated resumed events and a    *)
(* resumed after a failed window creation or a failed initialization        *)
(* included, Renderer::initialize is invoked at most once, inside the       *)
(* resumed handler, and no render reaches the GPU before it has returned    *)
(* successfully.                                                            *)
C22_InitializeOnce ==
    /\ init.calls <= 1
    /\ CountIn(trace, "Instance::new") <= 1
    /\ InTrace(trace, "Instance::new") => last_event.kind = "Resumed"
    /\ InTrace(trace, "get_current_texture") =>
          init.calls = 1 /\ init.result = "Ok"

C22_Witness ==
    /\ last_event.kind = "Resumed"
    /\ app.window_manager.window # None
    /\ init.calls = 1 /\ init.result \in InitErrors
    /\ trace = <<>>
    /\ clock.ticks > 0

(* C23  In every Ready state the configuration last applied to the        *)
(* surface (by initialize, by resize or by render's surface-lost arm) is    *)
(* the stored configuration; in particular the surface never has a width    *)
(* or height other than the stored ones.                                    *)
C23_SurfaceMatchesStored ==
    Ready(app.renderer) =>
      /\ surface_config # None
      /\ Unwrap(surface_config) = Unwrap(app.renderer.config)
      /\ << Unwrap(surface_config).width, Unwrap(surface_config).height >>
             = ConfigSize(app.renderer)

C23_Witness ==
    /\ Ready(app.renderer)
    /\ acquired = "Lost"
    /\ InTrace(trace, "surface.configure")
    /\ ConfigSize(app.renderer) = <<1, 5>>
    /\ Unwrap(surface_config).width = 1 /\ Unwrap(surface_config).height = 5

(* C24  The scene's vertex buffer is present if and only if a rebuild has  *)
(* happened, and a rebuild happens only with a device: in Ready the buffer  *)
(* is present, in Uninitialized (after a failed initialize and across idle  *)
(* ticks that run Scene::update as well) it is absent, so that a render in  *)
(* Ready always gets as far as acquiring a frame.                           *)
C24_BufferIffRebuilt ==
    /\ (app.renderer.scene.vertex_buffer # None) <=> rebuilt
    /\ rebuilt => app.renderer.device # None
    /\ Ready(app.renderer) => app.renderer.scene.vertex_buffer # None
    /\ Uninitialized(app.renderer) => app.renderer.scene.vertex_buffer = None
    /\ (Ready(app.renderer) /\ last_event.kind = "AboutToWait") =>
          CountIn(trace, "get_current_texture") = 1

C24_Witness ==
    /\ Uninitialized(app.renderer)
    /\ init.calls = 1 /\ init.result \in InitErrors
    /\ last_event.kind = "AboutToWait"
    /\ last_tick.update_count > 0
    /\ InTrace(trace, "scene.update")
    /\ ~ rebuilt
    /\ app.renderer.scene.vertex_buffer = None

====
